---------------------------- MODULE Spec2Model ----------------------------
(***************************************************************************)
(* Model of server.js: the order / payment reconciliation back end.        *)
(*                                                                         *)
(* State: the two MongoDB collections (customers, orders), the payment     *)
(* gateway's view of every transaction reference, the latest reading of    *)
(* the wall clock (Date.now()), one record per in-flight HTTP request      *)
(* holding the handler's local variables and its position (the await it is *)
(* suspended at), and the HTTP response the last step sent.  Every await   *)
(* of a handler is a step boundary; the synchronous code between two       *)
(* awaits is one atomic step.                                              *)
(***************************************************************************)
EXTENDS Integers, Sequences, FiniteSets, TLC

\* ------------------------------------------------------------------ bounds
MaxReqs   == 2      \* concurrently in-flight HTTP requests
MaxOrders == 2      \* documents the orders collection may hold
MaxClock  == 1      \* milliseconds that pass on the wall clock
MaxRnd    == 1      \* distinct random segments Math.random() may yield
MaxTries  == 6      \* iterations of the code-allocation loop explored (SpecAlloc)
PayTries  == 2      \* iterations of the code-allocation loop explored (Spec)
MaxTxns   == 2      \* transactions the gateway opens

\* ------------------------------------------------------- program constants
TimestampDigits == 6        \* Date.now().toString().slice(-6)

Reqs     == 1..MaxReqs
OrderIds == 1..MaxOrders
Times    == 0..MaxClock
Emails   == {"a@x.com"}
Amounts  == {20}

\* The e-mail addresses requests carry where the customer routes are
\* explored: two spellings of one address and another address.
CustEmails == {"a@x.com", "A@x.com", "b@x.com"}

\* String.prototype.toLowerCase on those addresses.
toLowerCaseUnchanged(s) == s

toLowerCase(s) == IF s = "A@x.com" THEN "a@x.com" ELSE s

Secret   == "PAYSTACK_SECRET_KEY"

\* order.totalAmount * 100 (naira to kobo, the unit the gateway expects)
ToKobo(naira) == naira * 100

\* What the gateway holds for a reference: the status of the transaction
\* and the amount (in kobo) it was opened with.
NoTxn == [status |-> "none", amount |-> 0]

\* A payment reference is `order_${order._id}_${Date.now()}`.
MkReference(oid, t) == <<oid, t>>
NoRef == <<0, 0>>                       \* undefined / field not set
RefOrder(ref) == ref[1]                 \* the order._id the reference names
Refs  == {MkReference(o, t) : o \in OrderIds, t \in Times}

\* An order code is `PH` + last six digits of the timestamp + random segment.
RECURSIVE Pow10(_)
Pow10(n) == IF n = 0 THEN 1 ELSE 10 * Pow10(n - 1)

generateOrderCode(now, rnd) == <<"PH", now % Pow10(TimestampDigits), rnd>>
NoCode == <<"", 0, 0>>

\* HMAC-SHA512(key, body) in hex: determined by the key and the body, and
\* (collision resistance) different for different pairs.
Hmac(key, body) == <<"hmac", key, body>>

Events == {"charge.success", "charge.failed"}
Bodies == [event : Events, reference : Refs \cup {NoRef}]

VARIABLES clock, customers, orders, gw, req, out
vars == <<clock, customers, orders, gw, req, out>>

\* ---------------------------------------------------------------- schemas
\* customerSchema (the unique key)
NewCustomer(e) == [email |-> e]

\* orderSchema with its defaults
NewOrder(cust, code, amt, now) ==
    [customer         |-> cust,
     orderCode        |-> code,
     totalAmount      |-> amt,
     status           |-> "pending",
     paymentReference |-> NoRef,
     paymentStatus    |-> "pending",
     updatedAt        |-> now]

\* ---------------------------------------------------------- store queries
\* Customer.findOne({ email }): exact (case-sensitive) match; 0 = null.
FindCustomer(e) ==
    IF \E i \in 1..Len(customers) : customers[i].email = e
    THEN CHOOSE i \in 1..Len(customers) :
            /\ customers[i].email = e
            /\ \A j \in 1..(i - 1) : customers[j].email # e
    ELSE 0

\* Order.findOne({ orderCode })
FindOrderByCode(c) ==
    IF \E i \in 1..Len(orders) : orders[i].orderCode = c
    THEN CHOOSE i \in 1..Len(orders) :
            /\ orders[i].orderCode = c
            /\ \A j \in 1..(i - 1) : orders[j].orderCode # c
    ELSE 0

FindOrderIgnoringReference(ref) == IF Len(orders) > 0 THEN 1 ELSE 0

\* Order.findOne({ paymentReference: reference }): first document in natural
\* order.  An undefined reference is sent as null and matches the documents
\* that have no paymentReference field.
FindOrderByReference(ref) ==
    IF \E i \in 1..Len(orders) : orders[i].paymentReference = ref
    THEN CHOOSE i \in 1..Len(orders) :
            /\ orders[i].paymentReference = ref
            /\ \A j \in 1..(i - 1) : orders[j].paymentReference # ref
    ELSE 0

\* Unique index on Order.orderCode ({ unique: true }): an insert whose key is
\* already present is rejected with E11000.
OrderCodeIndexRejects(c) == \E i \in 1..Len(orders) : orders[i].orderCode = c

\* Unique index on Customer.email
EmailIndexRejects(e) == \E i \in 1..Len(customers) : customers[i].email = e

\* A loaded document tracks the paths assigned a value that differs from
\* the value loaded (Keep.. = path not modified).
KeepStr == "-"
KeepRef == <<-1, -1>>
KeepInt == 0 - 1
NoChange == [status |-> KeepStr, paymentStatus |-> KeepStr,
             paymentReference |-> KeepRef, updatedAt |-> KeepInt]

ModifiedPaths(snap, doc) ==
    [status           |-> IF doc.status # snap.status
                          THEN doc.status ELSE KeepStr,
     paymentStatus    |-> IF doc.paymentStatus # snap.paymentStatus
                          THEN doc.paymentStatus ELSE KeepStr,
     paymentReference |-> IF doc.paymentReference # snap.paymentReference
                          THEN doc.paymentReference ELSE KeepRef,
     updatedAt        |-> IF doc.updatedAt # snap.updatedAt
                          THEN doc.updatedAt ELSE KeepInt]

\* document.save() of a loaded document: updateOne({_id}, {$set: <modified
\* paths>}); the other paths keep what the store holds now.
SaveDoc(stored, set) ==
    [stored EXCEPT
       !.status           = IF set.status # KeepStr THEN set.status ELSE @,
       !.paymentStatus    = IF set.paymentStatus # KeepStr
                            THEN set.paymentStatus ELSE @,
       !.paymentReference = IF set.paymentReference # KeepRef
                            THEN set.paymentReference ELSE @,
       !.updatedAt        = IF set.updatedAt # KeepInt THEN set.updatedAt ELSE @]

\* ------------------------------------------------------- request records
\* The locals of a handler: set is what the loaded document has marked
\* modified, seen the status the reconciler's findOne loaded.
Idle == [op |-> "none", pc |-> "idle", email |-> "", cust |-> 0,
         amount |-> 0, code |-> NoCode, tries |-> 0, oid |-> 0,
         ref |-> NoRef, sigok |-> FALSE, set |-> NoChange, now |-> 0,
         seen |-> KeepStr]

\* The response a step sends (NoResponse when the step sends none): route,
\* HTTP status, the branch of the handler that produced it, the reference
\* the request carried and the payment status the gateway reported to it.
\* A step is observed with the response of the step before it delivered.
NoResponse == [op |-> "none", res |-> 0, why |-> "", ref |-> NoRef, gws |-> ""]

Response(op, code, why, ref, gws) ==
    [op |-> op, res |-> code, why |-> why, ref |-> ref, gws |-> gws]

Quiet == out = NoResponse

\* A new request is served on the first connection slot that is free.
Free(r) ==
    /\ Quiet
    /\ req[r].pc = "idle"
    /\ \A q \in 1..(r - 1) : req[q].pc # "idle"

\* Request r is suspended at the await named pc and resumes.
At(r, pc) == Quiet /\ req[r].pc = pc

Init ==
    /\ clock = 0
    /\ customers = << >>
    /\ orders = << >>
    /\ gw = [ref \in Refs |-> NoTxn]
    /\ req = [r \in Reqs |-> Idle]
    /\ out = NoResponse

\* Date.now(): the wall clock never runs backwards, so a reading is the
\* latest reading or a later time.
Readings == {t \in Times : t >= clock}

\* ------------------------------------------------------ POST /api/orders
\* The loop body up to its await: a candidate is generated at time t and
\* the existence query for it is issued.
ProposeCode(rec, t, rnd) ==
    [rec EXCEPT !.code = generateOrderCode(t, rnd),
                !.tries = rec.tries + 1,
                !.pc = "o_check"]

\* Customer.findOne({ email: customerData.email }) resolves.
OrderFindCustomer(r, e, amt, t, rnd) ==
    /\ Free(r)
    /\ LET c   == FindCustomer(e)
           rec == [Idle EXCEPT !.op = "order", !.email = e, !.amount = amt,
                               !.cust = c]
       IN IF c = 0
          THEN /\ req' = [req EXCEPT ![r] = [rec EXCEPT !.pc = "c_save"]]
               /\ clock' = clock
          ELSE /\ req' = [req EXCEPT ![r] = ProposeCode(rec, t, rnd)]
               /\ clock' = t
    /\ out' = NoResponse
    /\ UNCHANGED <<customers, orders, gw>>

\* customer.save() of the new customer resolves or is rejected.
OrderSaveCustomer(r, t, rnd) ==
    /\ At(r, "c_save")
    /\ IF EmailIndexRejects(req[r].email)
       THEN /\ req' = [req EXCEPT ![r] = Idle]
            /\ out' = Response("order", 400, "dupEmail", NoRef, "")
            /\ UNCHANGED <<customers, clock>>
       ELSE /\ customers' = Append(customers, NewCustomer(req[r].email))
            /\ req' = [req EXCEPT ![r] =
                         ProposeCode([@ EXCEPT !.cust = Len(customers) + 1], t, rnd)]
            /\ clock' = t
            /\ out' = NoResponse
    /\ UNCHANGED <<orders, gw>>

\* Order.findOne({ orderCode }) resolves: taken -> next iteration of the
\* while loop, free -> the order document is built (its dates default to
\* Date.now) and its save is issued.  cap bounds the iterations explored.
OrderCheckCode(r, t, rnd, cap) ==
    /\ At(r, "o_check")
    /\ IF FindOrderByCode(req[r].code) # 0
       THEN /\ req[r].tries < cap
            /\ req' = [req EXCEPT ![r] = ProposeCode(@, t, rnd)]
       ELSE req' = [req EXCEPT ![r] = [@ EXCEPT !.pc = "o_save", !.now = t]]
    /\ clock' = t
    /\ out' = NoResponse
    /\ UNCHANGED <<customers, orders, gw>>

\* order.save() of the new order: the insert is applied unless the unique
\* index on orderCode rejects it, which the catch block answers with 400.
InsertOrderUnchecked(r) ==
    /\ orders' = Append(orders, NewOrder(req[r].cust, req[r].code,
                                         req[r].amount, req[r].now))
    /\ out' = Response("order", 201, "created", NoRef, "")

InsertOrder(r) ==
    IF OrderCodeIndexRejects(req[r].code)
    THEN /\ out' = Response("order", 400, "dupCode", NoRef, "")
         /\ UNCHANGED orders
    ELSE /\ orders' = Append(orders, NewOrder(req[r].cust, req[r].code,
                                              req[r].amount, req[r].now))
         /\ out' = Response("order", 201, "created", NoRef, "")

OrderSave(r) ==
    /\ At(r, "o_save")
    /\ Len(orders) < MaxOrders \/ OrderCodeIndexRejects(req[r].code)
    /\ InsertOrder(r)
    /\ req' = [req EXCEPT ![r] = Idle]
    /\ UNCHANGED <<clock, customers, gw>>

\* -------------------------------------------- POST /api/payments/initialize
SetReferenceResetsPayment(doc, ref) ==
    [doc EXCEPT !.paymentReference = ref, !.paymentStatus = "pending",
                !.status = "pending"]

\* order.paymentReference = paymentData.reference
SetReference(doc, ref) == [doc EXCEPT !.paymentReference = ref]

\* Order.findById(orderId).populate('customer') resolves: 404 when there is
\* no such order, otherwise paymentData (with its reference, made at time t)
\* is built and the gateway call is issued.  The request keeps what the
\* assignment after the gateway call will mark modified on the document
\* loaded here.
InitFind(r, oid, t) ==
    /\ Free(r)
    /\ IF oid > Len(orders)
       THEN /\ out' = Response("init", 404, "notFound", NoRef, "")
            /\ UNCHANGED <<req, clock>>
       ELSE /\ req' = [req EXCEPT ![r] =
                         [Idle EXCEPT !.op = "init", !.pc = "i_gw", !.oid = oid,
                                      !.amount = ToKobo(orders[oid].totalAmount),
                                      !.ref = MkReference(oid, t),
                                      !.set = ModifiedPaths(orders[oid],
                                                 SetReference(orders[oid],
                                                     MkReference(oid, t)))]]
            /\ clock' = t
            /\ out' = NoResponse
    /\ UNCHANGED <<customers, orders, gw>>

InitGatewayIgnoresFailure(r, ok) ==
    /\ At(r, "i_gw")
    /\ ok => Cardinality({x \in Refs : gw[x].status # "none"}) < MaxTxns
    /\ IF ok /\ gw[req[r].ref].status = "none"
       THEN gw' = [gw EXCEPT ![req[r].ref] =
                     [status |-> "abandoned", amount |-> req[r].amount]]
       ELSE UNCHANGED gw
    /\ req' = [req EXCEPT ![r] = [@ EXCEPT !.pc = "i_save"]]
    /\ out' = NoResponse
    /\ UNCHANGED <<clock, customers, orders>>

\* axios.post(.../transaction/initialize) returns: the gateway opens a
\* transaction for the reference, or the call fails (transport error,
\* rejected request, reference already used) and the catch block answers 500.
InitGateway(r, ok) ==
    /\ At(r, "i_gw")
    /\ ok => Cardinality({x \in Refs : gw[x].status # "none"}) < MaxTxns
    /\ IF ok /\ gw[req[r].ref].status = "none"
       THEN /\ gw' = [gw EXCEPT ![req[r].ref] =
                        [status |-> "abandoned", amount |-> req[r].amount]]
            /\ req' = [req EXCEPT ![r] = [@ EXCEPT !.pc = "i_save"]]
            /\ out' = NoResponse
       ELSE /\ req' = [req EXCEPT ![r] = Idle]
            /\ out' = Response("init", 500, "gateway", NoRef, "")
            /\ UNCHANGED gw
    /\ UNCHANGED <<clock, customers, orders>>

\* await order.save() resolves and the handler answers 200.
InitSave(r) ==
    /\ At(r, "i_save")
    /\ orders' = [orders EXCEPT ![req[r].oid] = SaveDoc(@, req[r].set)]
    /\ req' = [req EXCEPT ![r] = Idle]
    /\ out' = Response("init", 200, "initialized", req[r].ref, "")
    /\ UNCHANGED <<clock, customers, gw>>

\* ---------------------------------------------------------------- gateway
\* The customer completes or fails the payment on the gateway's pages.
GatewaySettle(ref, outcome) ==
    /\ Quiet
    /\ gw[ref].status = "abandoned"
    /\ gw' = [gw EXCEPT ![ref] = [@ EXCEPT !.status = outcome]]
    /\ out' = NoResponse
    /\ UNCHANGED <<clock, customers, orders, req>>

\* The event bodies the gateway signs with the shared secret.
GatewayBodies ==
    {b \in Bodies : /\ b.reference # NoRef
                    /\ \/ b.event = "charge.success" /\ gw[b.reference].status = "success"
                       \/ b.event = "charge.failed" /\ gw[b.reference].status = "failed"}

\* ------------------------------------------------ the success transition
MarkPaidClearsReference(doc, now) ==
    [doc EXCEPT !.paymentStatus = "success", !.status = "paid",
                !.updatedAt = now, !.paymentReference = NoRef]

MarkPaidStatusOnly(doc, now) ==
    [doc EXCEPT !.status = "paid", !.updatedAt = now]

\* order.paymentStatus = 'success'; order.status = 'paid';
\* order.updatedAt = new Date();
MarkPaid(doc, now) ==
    [doc EXCEPT !.paymentStatus = "success", !.status = "paid",
                !.updatedAt = now]

\* ------------------------------------------------ POST /api/payments/verify
FromKoboUnconverted(kobo) == kobo

\* paymentData.amount / 100 (kobo to naira)
FromKobo(kobo) == kobo \div 100

\* res.json({ success: true, status, amount, reference }): the status the
\* gateway reported and its amount converted from kobo.
VerifyResponse(why, ref, gws, kobo) ==
    [op |-> "verify", res |-> 200, why |-> why, ref |-> ref, gws |-> gws,
     amount |-> FromKobo(kobo)]

\* axios.get(.../transaction/verify/<reference>) throws on a transport
\* error, whatever the reference: the catch block answers 500.
VerifyGatewayError(r) ==
    /\ Free(r)
    /\ out' = Response("verify", 500, "gateway", NoRef, "")
    /\ UNCHANGED <<clock, customers, orders, gw, req>>

\* axios.get(.../transaction/verify/<reference>) returns, or throws because
\* the gateway knows no such transaction.  Unless the reported status is
\* 'success' the handler answers at once.
VerifyCall(r, ref) ==
    /\ Free(r)
    /\ IF ref = NoRef \/ gw[ref].status = "none"
       THEN /\ out' = Response("verify", 500, "gateway", NoRef, "")
            /\ UNCHANGED req
       ELSE IF gw[ref].status = "success"
       THEN /\ req' = [req EXCEPT ![r] =
                         [Idle EXCEPT !.op = "verify", !.pc = "v_find", !.ref = ref,
                                      !.amount = gw[ref].amount]]
            /\ out' = NoResponse
       ELSE /\ out' = VerifyResponse("notSuccess", ref, gw[ref].status,
                                     gw[ref].amount)
            /\ UNCHANGED req
    /\ UNCHANGED <<clock, customers, orders, gw>>

\* Order.findOne({ paymentReference: reference }) resolves; a found order is
\* modified in memory (at time t) and its save is issued.
VerifyFind(r, t) ==
    /\ At(r, "v_find")
    /\ LET i == FindOrderByReference(req[r].ref)
       IN IF i = 0
          THEN /\ req' = [req EXCEPT ![r] = Idle]
               /\ out' = VerifyResponse("noOrder", req[r].ref, "success",
                                        req[r].amount)
               /\ clock' = clock
          ELSE /\ req' = [req EXCEPT ![r] =
                            [@ EXCEPT !.pc = "v_save", !.oid = i,
                                      !.seen = orders[i].status,
                                      !.set = ModifiedPaths(orders[i],
                                                 MarkPaid(orders[i], t))]]
               /\ out' = NoResponse
               /\ clock' = t
    /\ UNCHANGED <<customers, orders, gw>>

\* await order.save() resolves and the handler answers 200.
VerifySave(r) ==
    /\ At(r, "v_save")
    /\ orders' = [orders EXCEPT ![req[r].oid] = SaveDoc(@, req[r].set)]
    /\ req' = [req EXCEPT ![r] = Idle]
    /\ out' = VerifyResponse("applied", req[r].ref, "success", req[r].amount)
    /\ UNCHANGED <<clock, customers, gw>>

\* ------------------------------------------------ POST /api/webhooks/paystack
SignatureAcceptedAlways(body, sig) == TRUE

\* hash === req.headers['x-paystack-signature']
SignatureAccepted(body, sig) == Hmac(Secret, body) = sig

\* The signature headers a delivery may carry: the gateway's signature of
\* the delivered body, its signature of another body it has signed, or a
\* digest made with another key.
Signatures(body) ==
    {Hmac(Secret, b) : b \in GatewayBodies} \cup {Hmac("other", body)}

\* The status the handler sends on each of its paths: 500 from the catch
\* block, 200 otherwise.
WebhookStatus(why) == IF why \in {"crypto", "store"} THEN 500 ELSE 200

\* server.js never requires `crypto`: in a process where the identifier is
\* not bound to Node's crypto module the first statement of the handler
\* throws, whatever the delivery, and the catch block answers.
WebhookCryptoError(r) ==
    /\ Free(r)
    /\ out' = Response("webhook", WebhookStatus("crypto"), "crypto", NoRef, "")
    /\ UNCHANGED <<clock, customers, orders, gw, req>>

\* The handler up to its first await, in a process where `crypto` is bound.
WebhookReceive(r, body, sig) ==
    /\ Free(r)
    /\ LET why == IF ~SignatureAccepted(body, sig) THEN "badSignature"
                  ELSE IF body.event # "charge.success" THEN "ignoredEvent"
                  ELSE "find"
       IN IF why = "find"
          THEN /\ req' = [req EXCEPT ![r] =
                            [Idle EXCEPT !.op = "webhook", !.pc = "w_find",
                                         !.ref = body.reference,
                                         !.sigok = (Hmac(Secret, body) = sig)]]
               /\ out' = NoResponse
          ELSE /\ out' = Response("webhook", WebhookStatus(why), why,
                                  body.reference, "")
               /\ UNCHANGED req
    /\ UNCHANGED <<clock, customers, orders, gw>>

WebhookFind(r, t) ==
    /\ At(r, "w_find")
    /\ LET i == FindOrderByReference(req[r].ref)
       IN IF i = 0
          THEN /\ req' = [req EXCEPT ![r] = Idle]
               /\ out' = Response("webhook", WebhookStatus("noOrder"), "noOrder",
                                  req[r].ref, "")
               /\ clock' = clock
          ELSE /\ req' = [req EXCEPT ![r] =
                            [@ EXCEPT !.pc = "w_save", !.oid = i,
                                      !.seen = orders[i].status,
                                      !.set = ModifiedPaths(orders[i],
                                                 MarkPaid(orders[i], t))]]
               /\ out' = NoResponse
               /\ clock' = t
    /\ UNCHANGED <<customers, orders, gw>>

WebhookSave(r) ==
    /\ At(r, "w_save")
    /\ orders' = [orders EXCEPT ![req[r].oid] = SaveDoc(@, req[r].set)]
    /\ req' = [req EXCEPT ![r] = Idle]
    /\ out' = Response("webhook", WebhookStatus("applied"), "applied",
                       req[r].ref, "")
    /\ UNCHANGED <<clock, customers, gw>>

\* ------------------------------------------------------ POST /api/customers
\* res.status(...).json({ success, customer }) of the customers route.
CustomerResponse(code, why, email, cust) ==
    [op |-> "customer", res |-> code, why |-> why, ref |-> NoRef, gws |-> "",
     email |-> email, cust |-> cust]

\* Customer.findOne({ email }) resolves: the customer found is returned as
\* it is stored, otherwise a new document is built and its save is issued.
RegisterFind(r, e) ==
    /\ Free(r)
    /\ LET c == FindCustomer(e)
       IN IF c # 0
          THEN /\ out' = CustomerResponse(201, "existing", e, c)
               /\ UNCHANGED req
          ELSE /\ req' = [req EXCEPT ![r] =
                            [Idle EXCEPT !.op = "customer", !.pc = "r_save",
                                         !.email = e]]
               /\ out' = NoResponse
    /\ UNCHANGED <<clock, customers, orders, gw>>

\* customer.save() resolves, or the unique index on email rejects it and
\* the catch block answers 400.
RegisterSave(r) ==
    /\ At(r, "r_save")
    /\ IF EmailIndexRejects(req[r].email)
       THEN /\ out' = CustomerResponse(400, "dupEmail", req[r].email, 0)
            /\ UNCHANGED customers
       ELSE /\ customers' = Append(customers, NewCustomer(req[r].email))
            /\ out' = CustomerResponse(201, "created", req[r].email,
                                       Len(customers) + 1)
    /\ req' = [req EXCEPT ![r] = Idle]
    /\ UNCHANGED <<clock, orders, gw>>

\* ------------------------------------------------- POST /api/orders/verify
\* The order codes a request may carry: those the generator can produce.
Codes == {generateOrderCode(t, n) : t \in Times, n \in 1..MaxRnd}

OwnerResponse(code, why, email, ocode, oid) ==
    [op |-> "owner", res |-> code, why |-> why, ref |-> NoRef, gws |-> "",
     email |-> email, code |-> ocode, oid |-> oid]

\* The handler: 400 without an email; with an orderCode the order is looked
\* up (404 when there is none) and its customer's email is compared with the
\* supplied one, both in lower case (403 when they differ); without an
\* orderCode the customer is looked up by the lower-cased email.
OrdersVerify(r, email, code) ==
    /\ Free(r)
    /\ out' =
         IF email = "" THEN OwnerResponse(400, "emailRequired", email, code, 0)
         ELSE IF code # NoCode
         THEN LET i == FindOrderByCode(code)
              IN IF i = 0 THEN OwnerResponse(404, "notFound", email, code, 0)
                 ELSE IF toLowerCase(customers[orders[i].customer].email)
                            # toLowerCase(email)
                 THEN OwnerResponse(403, "mismatch", email, code, 0)
                 ELSE OwnerResponse(200, "verified", email, code, i)
         ELSE IF FindCustomer(toLowerCase(email)) = 0
         THEN OwnerResponse(404, "noOrders", email, code, 0)
         ELSE OwnerResponse(200, "list", email, code, 0)
    /\ UNCHANGED <<clock, customers, orders, gw, req>>

\* ------------------------------------------------------------ store faults
\* A pending store operation rejects (connection lost, ...): the handler's
\* catch block answers 400 (orders) or 500 (payments, webhook).
StorePcs == {"c_save", "o_check", "o_save", "i_save", "v_find", "v_save",
             "w_find", "w_save", "r_save"}

CatchStatus(op) ==
    IF op \in {"order", "customer"} THEN 400
    ELSE IF op = "webhook" THEN WebhookStatus("store") ELSE 500

StoreFault(r) ==
    /\ Quiet
    /\ req[r].pc \in StorePcs
    /\ req' = [req EXCEPT ![r] = Idle]
    /\ out' = Response(req[r].op, CatchStatus(req[r].op), "store", NoRef, "")
    /\ UNCHANGED <<clock, customers, orders, gw>>

\* --------------------------------------------------------------- responses
\* The response leaves the server.
Deliver ==
    /\ out # NoResponse
    /\ out' = NoResponse
    /\ UNCHANGED <<clock, customers, orders, gw, req>>

\* ------------------------------------------------------------------- Next
\* The steps of the requests served on the connection slots R.
CreateOrder(R, cap) ==
    \/ \E r \in R, e \in Emails, a \in Amounts, t \in Readings, n \in 1..MaxRnd :
          OrderFindCustomer(r, e, a, t, n)
    \/ \E r \in R, t \in Readings, n \in 1..MaxRnd : OrderSaveCustomer(r, t, n)
    \/ \E r \in R, t \in Readings, n \in 1..MaxRnd : OrderCheckCode(r, t, n, cap)
    \/ \E r \in R : OrderSave(r)

Payments(R) ==
    \/ \E r \in R, o \in OrderIds, t \in Readings : InitFind(r, o, t)
    \/ \E r \in R, ok \in BOOLEAN : InitGateway(r, ok)
    \/ \E r \in R : InitSave(r)
    \/ \E ref \in Refs, s \in {"success", "failed"} : GatewaySettle(ref, s)
    \/ \E r \in R : VerifyGatewayError(r)
    \/ \E r \in R, ref \in Refs \cup {NoRef} : VerifyCall(r, ref)
    \/ \E r \in R, t \in Readings : VerifyFind(r, t)
    \/ \E r \in R : VerifySave(r)
    \/ \E r \in R : WebhookCryptoError(r)
    \/ \E r \in R, b \in Bodies : \E s \in Signatures(b) : WebhookReceive(r, b, s)
    \/ \E r \in R, t \in Readings : WebhookFind(r, t)
    \/ \E r \in R : WebhookSave(r)

Next ==
    \/ Deliver
    \/ CreateOrder(Reqs, PayTries)
    \/ Payments(Reqs)
    \/ \E r \in Reqs : StoreFault(r)

Spec == Init /\ [][Next]_vars

\* The routes with every store operation succeeding.
NextNoFault ==
    \/ Deliver
    \/ CreateOrder(Reqs, PayTries)
    \/ Payments(Reqs)

SpecNoFault == Init /\ [][NextNoFault]_vars

\* One connection, and deliveries signed with the shared secret whatever
\* their payload: any event, with or without a reference.
SerialReqs == {1}

NextSigned ==
    \/ Deliver
    \/ CreateOrder(SerialReqs, PayTries)
    \/ Payments(SerialReqs)
    \/ \E r \in SerialReqs, b \in Bodies : WebhookReceive(r, b, Hmac(Secret, b))
    \/ \E r \in SerialReqs : StoreFault(r)

SpecSigned == Init /\ [][NextSigned]_vars

\* Order creation alone, with the allocation loop explored further.
NextAlloc ==
    \/ Deliver
    \/ CreateOrder(Reqs, MaxTries)
    \/ \E r \in Reqs : StoreFault(r)

SpecAlloc == Init /\ [][NextAlloc]_vars

\* The operational (manual) status changes of the lifecycle, made directly
\* on the store: paid -> confirmed, and any non-terminal state -> cancelled.
AdminSetStatus(oid, s) ==
    /\ Quiet
    /\ oid \in 1..Len(orders)
    /\ \/ s = "confirmed" /\ orders[oid].status = "paid"
       \/ s = "cancelled" /\ orders[oid].status # "cancelled"
    /\ orders' = [orders EXCEPT ![oid] = [@ EXCEPT !.status = s]]
    /\ out' = NoResponse
    /\ UNCHANGED <<clock, customers, gw, req>>

\* The requests of one connection, with operational status changes made
\* between (and during) them.
AdminReqs == {1}

NextAdmin ==
    \/ Deliver
    \/ CreateOrder(AdminReqs, PayTries)
    \/ Payments(AdminReqs)
    \/ \E r \in AdminReqs : StoreFault(r)
    \/ \E o \in OrderIds, s \in {"confirmed", "cancelled"} : AdminSetStatus(o, s)

SpecAdmin == Init /\ [][NextAdmin]_vars

\* The customer routes: registration, order creation and ownership
\* verification with addresses that differ in letter case.
NextCust ==
    \/ Deliver
    \/ \E r \in Reqs, e \in CustEmails, a \in Amounts, t \in Readings,
          n \in 1..MaxRnd : OrderFindCustomer(r, e, a, t, n)
    \/ \E r \in Reqs, t \in Readings, n \in 1..MaxRnd : OrderSaveCustomer(r, t, n)
    \/ \E r \in Reqs, t \in Readings, n \in 1..MaxRnd :
          OrderCheckCode(r, t, n, PayTries)
    \/ \E r \in Reqs : OrderSave(r)
    \/ \E r \in Reqs, e \in CustEmails : RegisterFind(r, e)
    \/ \E r \in Reqs : RegisterSave(r)
    \/ \E r \in Reqs, e \in CustEmails \cup {""}, c \in Codes \cup {NoCode} :
          OrdersVerify(r, e, c)
    \/ \E r \in Reqs : StoreFault(r)

SpecCust == Init /\ [][NextCust]_vars

TypeOK ==
    /\ clock \in Times
    /\ Len(orders) <= MaxOrders
    /\ \A i \in 1..Len(orders) :
         /\ orders[i].status \in {"pending", "paid", "confirmed", "cancelled"}
         /\ orders[i].paymentStatus \in {"pending", "success", "failed"}
         /\ orders[i].customer \in 1..Len(customers)
    /\ out.res \in {0, 200, 201, 400, 403, 404, 500}

\* ================================================================= claims
AwaitingPayment(o) == o.paymentReference # NoRef /\ o.paymentStatus = "pending"

\* C1: in every state reachable by interleaved order-creation requests no
\* two persisted orders have the same orderCode.
C1_OrderCodesDistinct ==
    \A i, j \in 1..Len(orders) :
        i # j => orders[i].orderCode # orders[j].orderCode

\* Two creations proposed the same candidate, both passed the existence
\* check, one was inserted and the other was rejected by the index.
C1_Witness ==
    /\ out.op = "order" /\ out.why = "dupCode"
    /\ Len(orders) >= 1

\* C2: an orderCode collision met when the order is persisted is retried
\* with a new candidate and is not surfaced to the caller as a failed
\* request.  (The handler makes one insert attempt per request, so a
\* duplicate-key answer is a collision surfaced on the first attempt.)
C2_CollisionNotSurfaced ==
    ~(out.op = "order" /\ out.res = 400 /\ out.why = "dupCode")

\* C3: order-code allocation makes at most a fixed number of attempts (five,
\* the limit given as the example) and then stops, also when every
\* candidate it proposes is taken.
C3_AttemptsBounded ==
    \A r \in Reqs : req[r].tries <= 5

\* C4: forward-only lifecycle: an order with paymentStatus success never
\* has paymentStatus pending or failed later, and an order with status paid
\* never has status pending later.
C4_ForwardOnly ==
    [][\A i \in 1..Len(orders) :
          /\ orders[i].paymentStatus = "success"
                => orders'[i].paymentStatus = "success"
          /\ orders[i].status = "paid" => orders'[i].status # "pending"]_vars

\* An initialize-payment request completed on an order that was paid.
C4_Witness ==
    /\ out.op = "init" /\ out.why = "initialized"
    /\ \E i \in 1..Len(orders) :
          /\ orders[i].paymentReference = out.ref
          /\ orders[i].status = "paid" /\ orders[i].paymentStatus = "success"

\* C5: the reconciler never sets or clears the administrative states: an
\* order whose status is confirmed or cancelled keeps an administrative
\* status whatever success signal arrives for it.
C5_AdminStatesKept ==
    [][\A i \in 1..Len(orders) :
          orders[i].status \in {"confirmed", "cancelled"}
             => orders'[i].status \in {"confirmed", "cancelled"}]_vars

\* C6: idempotent reconciliation: every application of the success
\* transition, by the verify path or the webhook path, to an order that is
\* awaiting payment or was already reconciled leaves the order paid /
\* success with every other field but updatedAt as it was, leaves every
\* other order as it was, and is answered 200.
C6_Idempotent ==
    [][\A r \in Reqs :
          (/\ req[r].pc \in {"v_save", "w_save"}
           /\ req'[r].pc = "idle"
           /\ out'.why = "applied")
          => /\ out'.res = 200
             /\ orders' = [orders EXCEPT ![req[r].oid] =
                   [@ EXCEPT !.status = "paid", !.paymentStatus = "success",
                             !.updatedAt = orders'[req[r].oid].updatedAt]]]_vars

\* The success transition has been applied to an order (the answer is
\* being delivered) while a second request that loaded the order after it
\* was reconciled is about to apply it again.
C6_Witness ==
    /\ out.why = "applied"
    /\ \E r \in Reqs :
          /\ req[r].pc \in {"v_save", "w_save"}
          /\ req[r].ref = out.ref
          /\ req[r].set.status = KeepStr
          /\ req[r].set.paymentStatus = KeepStr

\* C7: once an order's paymentReference is set no later operation changes
\* it.
C7_ReferenceImmutable ==
    [][\A i \in 1..Len(orders) :
          orders[i].paymentReference # NoRef
             => orders'[i].paymentReference = orders[i].paymentReference]_vars

\* C8: a webhook delivery whose signature header is not the HMAC of its
\* body changes no order and no customer: it is answered without a store
\* operation being issued for it, and no step taken on its behalf writes.
C8_BadSignatureNoMutation ==
    [][/\ (out'.op = "webhook" /\ out'.why \in {"badSignature", "crypto"})
            => orders' = orders /\ customers' = customers /\ req' = req
       /\ \A r \in Reqs :
            (req[r].op = "webhook" /\ ~req[r].sigok /\ req'[r] # req[r])
               => orders' = orders /\ customers' = customers]_vars

\* A delivery with a bad signature was answered whose reference is that of
\* an order awaiting payment.
C8_Witness ==
    /\ out.op = "webhook" /\ out.why = "badSignature"
    /\ \E i \in 1..Len(orders) :
          orders[i].paymentReference = out.ref /\ AwaitingPayment(orders[i])

\* C9: the webhook endpoint answers 200 to every delivery (signature
\* mismatch, event other than charge.success, no matching order, applied)
\* and 500 only when a store operation failed.
C9_Webhook200UnlessStoreFault ==
    out.op = "webhook" => (out.res = 200 <=> out.why # "store")

\* C10: a failed outcome reported by the gateway for the reference of an
\* order awaiting payment (to a verify call, or in a signed event other
\* than charge.success) moves the order to paymentStatus failed.
C10_FailedRecorded ==
    (\/ out.op = "verify" /\ out.res = 200 /\ out.gws = "failed"
     \/ /\ out.op = "webhook" /\ out.why = "ignoredEvent"
        /\ out.ref # NoRef /\ gw[out.ref].status = "failed")
       => \A i \in 1..Len(orders) :
             orders[i].paymentReference = out.ref
                => orders[i].paymentStatus = "failed"

\* C11: the verify path answers 200 with the status the gateway reports
\* for the reference and the gateway amount divided by 100 whenever the
\* gateway call returned, whether or not an order has the reference; a
\* step of a verify request changes an order only when the gateway status
\* is success and the lookup by the reference found that order; a failed
\* gateway call is answered 500 and changes nothing.
C11_VerifyAnswer ==
    [][/\ (out'.op = "verify" /\ out'.why \in {"notSuccess", "noOrder", "applied"})
            => /\ out'.res = 200
               /\ out'.gws = gw[out'.ref].status
               /\ out'.amount * 100 = gw[out'.ref].amount
       /\ (out'.op = "verify" /\ out'.why = "gateway")
            => /\ out'.res = 500
               /\ orders' = orders /\ customers' = customers /\ gw' = gw
       /\ \A r \in Reqs :
            (req[r].op = "verify" /\ req'[r] # req[r] /\ orders' # orders)
               => /\ gw[req[r].ref].status = "success"
                  /\ req[r].oid \in 1..Len(orders)
                  /\ \A i \in 1..Len(orders) :
                        i # req[r].oid => orders'[i] = orders[i]]_vars

\* A verify call was answered for a payment the gateway accepted although
\* no order has the reference.
C11_Witness ==
    /\ out.op = "verify" /\ out.res = 200 /\ out.why = "noOrder"
    /\ out.gws = "success" /\ out.amount = 20
    /\ \E i \in 1..Len(orders) : orders[i].paymentReference # NoRef
\* Equality of two e-mail addresses ignoring letter case.
SameIgnoringCase(a, b) == a = b \/ {a, b} = {"a@x.com", "A@x.com"}

\* C12: ownership verification with a non-empty email and code answers 404
\* when no order has the code, 200 with the order when the order's
\* customer's email equals the supplied one ignoring case, and 403 when the
\* order exists and the emails differ ignoring case.
C12_OwnershipOutcomes ==
    (out.op = "owner" /\ out.email # "" /\ out.code # NoCode)
       => LET i == FindOrderByCode(out.code)
          IN IF i = 0 THEN out.res = 404
             ELSE IF SameIgnoringCase(customers[orders[i].customer].email,
                                      out.email)
             THEN out.res = 200 /\ out.oid = i
             ELSE out.res = 403

\* An order was verified with an address spelled in another letter case
\* than its customer's.
C12_Witness ==
    /\ out.op = "owner" /\ out.res = 200 /\ out.oid # 0
    /\ customers[orders[out.oid].customer].email # out.email

\* C13: there is at most one customer per email compared ignoring case: a
\* request whose email differs only in letter case from a stored customer's
\* gets that customer and creates none.
C13_OneCustomerIgnoringCase ==
    \A i, j \in 1..Len(customers) :
        SameIgnoringCase(customers[i].email, customers[j].email) => i = j

\* C16: when two requests (registration or order creation) for the same
\* unseen email run concurrently, both complete with the one customer
\* created: neither is failed by the uniqueness constraint on email.
C16_NoRequestFailsOnEmailIndex ==
    ~(out.op \in {"order", "customer"} /\ out.res = 400 /\ out.why = "dupEmail")

\* C14: initialize-payment answers 404 for an order that does not exist
\* without calling the gateway, answers 500 when the gateway call fails and
\* then leaves every order as it was, and an order's paymentReference is
\* only ever set to a reference the gateway has accepted.
C14_ReferenceAfterGateway ==
    [][/\ (out'.op = "init" /\ out'.why = "notFound")
            => /\ out'.res = 404
               /\ gw' = gw /\ orders' = orders /\ req' = req
       /\ (out'.op = "init" /\ out'.why = "gateway")
            => out'.res = 500 /\ orders' = orders /\ gw' = gw
       /\ \A i \in 1..Len(orders) :
            orders'[i].paymentReference # orders[i].paymentReference
               => gw[orders'[i].paymentReference].status # "none"]_vars

\* The gateway call of an initialize request failed while the order had no
\* paymentReference, and the answer is 500.
C14_Witness ==
    /\ out.op = "init" /\ out.res = 500 /\ out.why = "gateway"
    /\ \E i \in 1..Len(orders) : orders[i].paymentReference = NoRef

\* C15: the reconciler's write (verify or webhook) overwrites no change
\* committed to the order between its read and its write: when the stored
\* status is no longer the one it read, the write leaves the stored status,
\* and it leaves the paymentReference an initialize-payment committed.
C15_NoLostUpdate ==
    [][\A r \in Reqs :
          (/\ req[r].pc \in {"v_save", "w_save"}
           /\ req'[r].pc = "idle"
           /\ out'.why = "applied")
          => /\ orders[req[r].oid].status # req[r].seen
                  => orders'[req[r].oid].status = orders[req[r].oid].status
             /\ orders'[req[r].oid].paymentReference
                  = orders[req[r].oid].paymentReference]_vars

C18_AcceptedPaymentReflected ==
    (/\ out.op \in {"verify", "webhook"} /\ out.res = 200
     /\ out.why \in {"noOrder", "applied"}
     /\ out.ref # NoRef
     /\ gw[out.ref].status = "success"
     /\ \A r \in Reqs : ~(req[r].pc = "i_save" /\ req[r].ref = out.ref))
       => /\ orders[RefOrder(out.ref)].status = "paid"
          /\ orders[RefOrder(out.ref)].paymentStatus = "success"

C20_StatusPairs ==
    [][/\ \A i \in 1..Len(orders') :
            <<orders'[i].status, orders'[i].paymentStatus>>
               \in {<<"pending", "pending">>, <<"paid", "success">>}
       /\ \A i \in (Len(orders) + 1)..Len(orders') :
            /\ orders'[i].status = "pending"
            /\ orders'[i].paymentStatus = "pending"
            /\ orders'[i].paymentReference = NoRef]_vars

\* One order has been reconciled while another, created after it, is
\* still pending.
C20_Witness ==
    /\ Len(orders) = 2
    /\ orders[1].status = "paid" /\ orders[1].paymentStatus = "success"
    /\ orders[2].status = "pending" /\ orders[2].paymentReference = NoRef

=============================================================================
